---- MODULE Spec2Model ----
(***************************************************************************)
(* Trinity e-mail tooling: the configuration file email_config.json, its   *)
(* two bootstrappers (quick_email_setup.py, setup_email.py) and the mail   *)
(* sender (send_email.py).                                                 *)
(*                                                                         *)
(* Text is modelled as sequences of one-character strings, so that         *)
(* str.strip, int(), str(), len and the substring test of the source are   *)
(* computed rather than assumed.  Emoji prefixes of fixed strings are left *)
(* out of the string constants.                                            *)
(*                                                                         *)
(* The fields of every record are written in the order in which TLC keeps  *)
(* them (the order in which the names first appear in the module), so that *)
(* a value shared by several workers is never rearranged in place.         *)
(***************************************************************************)
EXTENDS Integers, Sequences, FiniteSets, TLC

VARIABLES
    file,     \* email_config.json: [exists, doc], doc the JSON text as members
    mode,     \* permission bits of email_config.json (meaningful when it exists)
    umask,    \* file-creation mask of the invoking user
    sender,   \* a TrinityEmailSender object: [alive, config]
    op,       \* the operation that ran last
    args,     \* the inputs that operation was given
    raised,   \* "" or the exception that ended it
    ret,      \* its return value: [kind, b, config]
    out,      \* the lines it displayed that depend on the state
    trace,    \* the externally visible steps it took, in order
    message   \* the Message the last send_email built: [built, ...]

vars == <<file, mode, umask, sender, op, args, raised, ret, out, trace, message>>

(***************************************************************************)
(* Bounds                                                                  *)
(***************************************************************************)
MaxSecretLen == 2
MaxPortLen == 2

(***************************************************************************)
(* Text                                                                    *)
(***************************************************************************)
SeqsUpTo(S, n) == UNION {[1..k -> S] : k \in 0..n}

IsSpace(c) == c \in {" ", "\t"}

RECURSIVE LStrip(_)
LStrip(s) == IF s # <<>> /\ IsSpace(Head(s)) THEN LStrip(Tail(s)) ELSE s

RECURSIVE RStrip(_)
RStrip(s) == IF s # <<>> /\ IsSpace(s[Len(s)]) THEN RStrip(SubSeq(s, 1, Len(s) - 1)) ELSE s

\* str.strip()
Strip(s) == RStrip(LStrip(s))

\* needle in hay
Contains(hay, needle) ==
    \E i \in 0..(Len(hay) - Len(needle)) : SubSeq(hay, i + 1, i + Len(needle)) = needle

LowerChar(c) ==
    CASE c = "A" -> "a" [] c = "D" -> "d" [] c = "I" -> "i" [] c = "O" -> "o"
      [] c = "P" -> "p" [] c = "R" -> "r" [] c = "S" -> "s" [] c = "W" -> "w"
      [] c = "Y" -> "y"
      [] OTHER -> c

\* str.lower()
Lower(s) == [i \in 1..Len(s) |-> LowerChar(s[i])]

\* '*' * n
Stars(n) == [i \in 1..n |-> "*"]

Digits == <<"0", "1", "2", "3", "4", "5", "6", "7", "8", "9">>

IsDigit(c) == \E d \in 1..10 : Digits[d] = c

DigitVal(c) == (CHOOSE d \in 1..10 : Digits[d] = c) - 1

RECURSIVE NatStr(_)
NatStr(n) == IF n < 10 THEN <<Digits[n + 1]>> ELSE NatStr(n \div 10) \o <<Digits[(n % 10) + 1]>>

\* str(n) for an int n
IntStr(n) == IF n < 0 THEN <<"-">> \o NatStr(0 - n) ELSE NatStr(n)

RECURSIVE DigitsVal(_, _)
DigitsVal(s, acc) ==
    IF s = <<>> THEN acc
    ELSE IF Head(s) = "_" THEN DigitsVal(Tail(s), acc)
    ELSE DigitsVal(Tail(s), acc * 10 + DigitVal(Head(s)))

IntBody(s) == IF s # <<>> /\ Head(s) \in {"+", "-"} THEN Tail(s) ELSE s

\* int(s) accepts: surrounding blanks, an optional sign, digits with single
\* underscores between them
IntValid(s) ==
    LET b == IntBody(Strip(s)) IN
    /\ b # <<>>
    /\ \A i \in 1..Len(b) : IsDigit(b[i]) \/ b[i] = "_"
    /\ IsDigit(b[1]) /\ IsDigit(b[Len(b)])
    /\ \A i \in 1..(Len(b) - 1) : ~(b[i] = "_" /\ b[i + 1] = "_")

IntValue(s) ==
    LET t == Strip(s) IN
    IF t # <<>> /\ Head(t) = "-" THEN 0 - DigitsVal(IntBody(t), 0) ELSE DigitsVal(IntBody(t), 0)

(***************************************************************************)
(* Values, configurations and their JSON text                              *)
(***************************************************************************)
StrV(s) == [n |-> 0, s |-> s, t |-> "str"]
IntV(n) == [n |-> n, s |-> <<>>, t |-> "int"]

\* str(value)
PyStr(v) == IF v.t = "int" THEN IntStr(v.n) ELSE v.s

\* the key names as text
KeyChars(k) ==
    CASE k = "smtp_server" -> <<"s","m","t","p","_","s","e","r","v","e","r">>
      [] k = "smtp_port" -> <<"s","m","t","p","_","p","o","r","t">>
      [] k = "sender_email" -> <<"s","e","n","d","e","r","_","e","m","a","i","l">>
      [] k = "sender_password" -> <<"s","e","n","d","e","r","_","p","a","s","s","w","o","r","d">>
      [] k = "default_recipient" -> <<"d","e","f","a","u","l","t","_","r","e","c","i","p","i","e","n","t">>
      [] k = "API_PASSWORD" -> <<"A","P","I","_","P","A","S","S","W","O","R","D">>

RequiredKeys == {"smtp_server", "smtp_port", "sender_email", "sender_password", "default_recipient"}

\* A configuration is a Python dict: a sequence of [k, v] with distinct keys.
Keys(config) == {config[i].k : i \in 1..Len(config)}

HasKey(config, k) == k \in Keys(config)

\* config[k]
Get(config, k) == config[CHOOSE i \in 1..Len(config) : config[i].k = k].v

MkConfig(server, port, email, password, recipient) ==
    << [k |-> "smtp_server", v |-> server],
       [k |-> "smtp_port", v |-> port],
       [k |-> "sender_email", v |-> email],
       [k |-> "sender_password", v |-> password],
       [k |-> "default_recipient", v |-> recipient] >>

\* json.dump: one member per entry, in dict order; a string becomes a quoted
\* token, an int a number token of its decimal digits
JsonToken(v) ==
    IF v.t = "int" THEN [kind |-> "number", text |-> IntStr(v.n)]
    ELSE [kind |-> "string", text |-> v.s]

json_dump(config) ==
    [i \in 1..Len(config) |-> [name |-> config[i].k, tok |-> JsonToken(config[i].v)]]

\* json.load: the inverse reading of the members
JsonValue(tok) ==
    IF tok.kind = "number" THEN IntV(IntValue(tok.text)) ELSE StrV(tok.text)

json_load(doc) ==
    [i \in 1..Len(doc) |-> [k |-> doc[i].name, v |-> JsonValue(doc[i].tok)]]

\* the token as it is printed by json.dumps
TokenText(tok) ==
    IF tok.kind = "number" THEN tok.text ELSE <<"\"">> \o tok.text \o <<"\"">>

(***************************************************************************)
(* File permissions                                                        *)
(***************************************************************************)
OwnerBits == {"ur", "uw", "ux"}
OtherBits == {"gr", "gw", "gx", "or", "ow", "ox"}

\* 0o600
Mode600 == {"ur", "uw"}

\* open(path, 'w') creates with 0o666 less the umask
CreateMode(mask) == {"ur", "uw", "gr", "gw", "or", "ow"} \ mask

\* the masks 022 and 077
Umasks == { {"gw", "ow"}, OtherBits }

NoFile == [doc |-> <<>>, exists |-> FALSE]
TheFile(doc) == [doc |-> doc, exists |-> TRUE]

NoSender == [config |-> <<>>, alive |-> FALSE]

RetNone == [b |-> FALSE, config |-> <<>>, kind |-> "none"]
RetBool(b) == [b |-> b, config |-> <<>>, kind |-> "bool"]
RetConfig(c) == [b |-> FALSE, config |-> c, kind |-> "config"]

NoArgs == [none |-> TRUE]

NoneV == [n |-> 0, s |-> <<>>, t |-> "none"]

NoMessage == [built |-> FALSE]

(***************************************************************************)
(* The operator, who is told to edit email_config.json by hand             *)
(***************************************************************************)
Secrets == SeqsUpTo({"a", "*"}, MaxSecretLen)

PasswordValues == {StrV(s) : s \in Secrets} \cup {IntV(12)}

\* Configurations an operator may leave in the file: a complete one, one whose
\* address equals the password, one with a further upper-case password key.
SecretDocs ==
    {json_dump(MkConfig(StrV(<<"h">>), IntV(587), StrV(<<"a">>), p, StrV(<<"c">>))) :
        p \in PasswordValues}
    \cup {json_dump(MkConfig(StrV(<<"h">>), IntV(587), p, p, StrV(<<"c">>))) :
        p \in PasswordValues}
    \cup {json_dump(MkConfig(StrV(<<"h">>), IntV(587), StrV(<<"a">>), StrV(<<"a">>), StrV(<<"c">>))
                    \o << [k |-> "API_PASSWORD", v |-> p] >>) :
        p \in PasswordValues}

EditFile(doc) ==
    /\ file' = TheFile(doc)
    /\ mode' = IF file.exists THEN mode ELSE CreateMode(umask)
    /\ op' = "edit"
    /\ args' = NoArgs
    /\ raised' = ""
    /\ ret' = RetNone
    /\ out' = <<>>
    /\ trace' = <<>>
    /\ message' = NoMessage
    /\ UNCHANGED <<umask, sender>>

DeleteFile ==
    /\ file.exists
    /\ file' = NoFile
    /\ mode' = {}
    /\ op' = "delete"
    /\ args' = NoArgs
    /\ raised' = ""
    /\ ret' = RetNone
    /\ out' = <<>>
    /\ trace' = <<>>
    /\ message' = NoMessage
    /\ UNCHANGED <<umask, sender>>

(***************************************************************************)
(* quick_email_setup.py                                                    *)
(***************************************************************************)
\* the placeholder configuration of create_email_config
quick_config ==
    MkConfig(StrV(<<"s","m","t","p",".","g","m","a","i","l",".","c","o","m">>),
             IntV(587),
             StrV(<<"y","o","u","r","_","e","m","a","i","l","@","g","m","a","i","l",".","c","o","m">>),
             StrV(<<"y","o","u","r","_","a","p","p","_","p","a","s","s","w","o","r","d","_","h","e","r","e">>),
             StrV(<<"y","o","u","r","_","e","m","a","i","l","@","g","m","a","i","l",".","c","o","m">>))

\* variant: the test without lower()
IsPasswordKey_CaseSensitive(k) == Contains(KeyChars(k), <<"p","a","s","s","w","o","r","d">>)

\* 'password' in key.lower()
IsPasswordKey(k) == Contains(Lower(KeyChars(k)), <<"p","a","s","s","w","o","r","d">>)

\* what is printed after "  key: "
DisplayValue(k, v) == IF IsPasswordKey(k) THEN Stars(Len(PyStr(v))) ELSE PyStr(v)

LinePrefix(k) == <<" ", " ">> \o KeyChars(k) \o <<":", " ">>

\* the loop over existing_config.items()
DisplayExisting(config) ==
    [i \in 1..Len(config) |->
        [k |-> config[i].k, text |-> LinePrefix(config[i].k) \o DisplayValue(config[i].k, config[i].v)]]

\* print(json.dumps(config, indent=2))
DisplayJson(config) ==
    << [k |-> "", text |-> <<"{">>] >>
    \o [i \in 1..Len(config) |->
        [k |-> config[i].k,
         text |-> <<" ", " ", "\"">> \o KeyChars(config[i].k) \o <<"\"", ":", " ">>
                  \o TokenText(JsonToken(config[i].v))
                  \o (IF i < Len(config) THEN <<",">> ELSE <<>>)]]
    \o << [k |-> "", text |-> <<"}">>] >>

\* variant: the bootstrapper without its "already exists" guard
create_email_config_Overwrite ==
    /\ op' = "create_email_config"
    /\ args' = NoArgs
    /\ raised' = ""
    /\ file' = TheFile(json_dump(quick_config))
    /\ mode' = Mode600
    /\ out' = DisplayJson(quick_config)
    /\ ret' = RetConfig(quick_config)
    /\ trace' = <<"write", "chmod">>
    /\ message' = NoMessage
    /\ UNCHANGED <<umask, sender>>

create_email_config ==
    /\ op' = "create_email_config"
    /\ args' = NoArgs
    /\ raised' = ""
    /\ IF file.exists
       THEN LET existing_config == json_load(file.doc) IN
            /\ out' = DisplayExisting(existing_config)
            /\ ret' = RetConfig(existing_config)
            /\ trace' = <<"read">>
            /\ UNCHANGED <<file, mode>>
       ELSE /\ file' = TheFile(json_dump(quick_config))
            /\ mode' = Mode600
            /\ out' = DisplayJson(quick_config)
            /\ ret' = RetConfig(quick_config)
            /\ trace' = <<"write", "chmod">>
    /\ message' = NoMessage
    /\ UNCHANGED <<umask, sender>>

(***************************************************************************)
(* send_email.py                                                           *)
(***************************************************************************)
\* the configuration load_config writes when there is no file
default_config ==
    MkConfig(StrV(<<"s","m","t","p",".","g","m","a","i","l",".","c","o","m">>),
             IntV(587),
             StrV(<<"y","o","u","r","_","e","m","a","i","l","@","g","m","a","i","l",".","c","o","m">>),
             StrV(<<"y","o","u","r","_","a","p","p","_","p","a","s","s","w","o","r","d">>),
             StrV(<<"y","o","u","r","_","e","m","a","i","l","@","g","m","a","i","l",".","c","o","m">>))

\* variant: load_config that writes its default whatever the file holds
load_config_Rewrite ==
    [file |-> TheFile(json_dump(default_config)),
     mode |-> IF file.exists THEN mode ELSE CreateMode(umask),
     config |-> default_config,
     created |-> TRUE]

\* load_config on the current file: the configuration it returns and the
\* file it leaves behind
load_config ==
    IF file.exists
    THEN [file |-> file, mode |-> mode, config |-> json_load(file.doc), created |-> FALSE]
    ELSE [file |-> TheFile(json_dump(default_config)),
          mode |-> CreateMode(umask),
          config |-> default_config,
          created |-> TRUE]

\* What the outside world does to one send: the step of the SMTP session it
\* makes fail ("ok" for none), and the local time.
NetOutcomes == {"ok", "context", "connect", "starttls", "login", "sendmail", "quit"}

Env(net) == [net |-> net, now |-> "2026-01-01 00:00:00"]

\* An attachment argument: given is FALSE for None and for the empty path;
\* exists and readable are what the filesystem holds at that path.
NoAttachment == [exists |-> FALSE, given |-> FALSE, readable |-> FALSE]
MissingAttachment == [exists |-> FALSE, given |-> TRUE, readable |-> FALSE]
ReadableAttachment == [exists |-> TRUE, given |-> TRUE, readable |-> TRUE]
UnreadableAttachment == [exists |-> TRUE, given |-> TRUE, readable |-> FALSE]

\* not x, for a str or None
Falsy(v) == v.t = "none" \/ (v.t = "str" /\ v.s = <<>>)

TextLine(s) == [k |-> "", v |-> s]

\* variant: a session that goes on to submit after a rejected login
Transport_LoginIgnored(config, to_email, net) ==
    IF net = "context" THEN [ok |-> FALSE, steps |-> <<>>]
    ELSE IF ~HasKey(config, "smtp_server") \/ ~HasKey(config, "smtp_port")
    THEN [ok |-> FALSE, steps |-> <<>>]
    ELSE IF net = "connect" THEN [ok |-> FALSE, steps |-> <<"connect">>]
    ELSE IF net = "starttls" THEN [ok |-> FALSE, steps |-> <<"connect", "starttls", "quit">>]
    ELSE IF ~HasKey(config, "sender_password")
    THEN [ok |-> FALSE, steps |-> <<"connect", "starttls", "quit">>]
    ELSE IF net = "sendmail" \/ to_email.t = "none"
    THEN [ok |-> FALSE, steps |-> <<"connect", "starttls", "login", "sendmail", "quit">>]
    ELSE [ok |-> net # "quit", steps |-> <<"connect", "starttls", "login", "sendmail", "quit">>]

\* The try block of send_email: the steps attempted, in order, and whether the
\* block ran to its end.  Leaving the with block sends QUIT, also on an error.
Transport(config, to_email, net) ==
    IF net = "context" THEN [ok |-> FALSE, steps |-> <<>>]
    ELSE IF ~HasKey(config, "smtp_server") \/ ~HasKey(config, "smtp_port")
    THEN [ok |-> FALSE, steps |-> <<>>]
    ELSE IF net = "connect" THEN [ok |-> FALSE, steps |-> <<"connect">>]
    ELSE IF net = "starttls" THEN [ok |-> FALSE, steps |-> <<"connect", "starttls", "quit">>]
    ELSE IF ~HasKey(config, "sender_password")
    THEN [ok |-> FALSE, steps |-> <<"connect", "starttls", "quit">>]
    ELSE IF net = "login"
    THEN [ok |-> FALSE, steps |-> <<"connect", "starttls", "login", "quit">>]
    ELSE IF net = "sendmail" \/ to_email.t = "none"
    THEN [ok |-> FALSE, steps |-> <<"connect", "starttls", "login", "sendmail", "quit">>]
    ELSE [ok |-> net # "quit", steps |-> <<"connect", "starttls", "login", "sendmail", "quit">>]

\* variant: the test without os.path.exists
Attaches_GivenOnly(attachment) == attachment.given

\* attachment_path and os.path.exists(attachment_path)
Attaches(attachment) == attachment.given /\ attachment.exists

\* the parts attached to the multipart/alternative container
Parts(body, attachment, html_body, now) ==
    << [type |-> "plain", payload |-> body \o <<TextLine(""), TextLine("Sent from Trinity at"), TextLine(now)>>] >>
    \o (IF html_body # <<>> THEN << [type |-> "html", payload |-> html_body] >> ELSE <<>>)
    \o (IF Attaches(attachment) THEN << [type |-> "attachment", payload |-> <<>>] >> ELSE <<>>)

Raise(exc) ==
    [raised |-> exc, ret |-> RetNone, out |-> <<>>, trace |-> <<>>, message |-> NoMessage]

\* send_email(to_email, subject, body, attachment_path, html_body) on a sender
\* holding config
send_email(config, to_email, subject, body, attachment, html_body, env) ==
    LET to == IF Falsy(to_email)
              THEN (IF HasKey(config, "default_recipient")
                    THEN Get(config, "default_recipient") ELSE NoneV)
              ELSE to_email
    IN
    IF ~HasKey(config, "sender_email") THEN Raise("KeyError")
    ELSE IF Attaches(attachment) /\ ~attachment.readable THEN Raise("OSError")
    ELSE LET t == Transport(config, to, env.net) IN
         [raised |-> "",
          ret |-> RetBool(t.ok),
          out |-> << [k |-> IF t.ok THEN "sent" ELSE "error", text |-> <<>>] >>,
          trace |-> t.steps,
          message |-> [built |-> TRUE,
                       From |-> Get(config, "sender_email"),
                       To |-> to,
                       Subject |-> subject,
                       parts |-> Parts(body, attachment, html_body, env.now)]]

\* subjects.get(priority, subjects["normal"])
subjects(priority) ==
    CASE priority = "low" -> "[bell] Trinity Notification"
      [] priority = "high" -> "[siren] Trinity Important Alert"
      [] OTHER -> "[mail] Trinity Alert"

send_notification(config, text, priority, env) ==
    send_email(config, NoneV, subjects(priority), <<TextLine(text)>>, NoAttachment, <<>>, env)

\* report_data is [dict, items] (a mapping, items its entries in order) or
\* [dict |-> FALSE, items |-> <<>>, text] (anything else, printed as text)
ReportLines(report_data) ==
    IF report_data.dict THEN report_data.items ELSE <<TextLine(report_data.text)>>

send_report(config, report_data, report_type, env) ==
    send_email(config, NoneV, "Trinity " \o report_type,
               <<TextLine("Trinity " \o report_type), TextLine("=====")>> \o ReportLines(report_data),
               NoAttachment,
               <<TextLine("<h2>Trinity " \o report_type \o "</h2>"), TextLine(env.now)>>
                   \o ReportLines(report_data),
               env)

\* the effect of one call on the variables that describe the last operation
\* (the outcome is bound once)
Record(name, a, outcome) ==
    \E r \in {outcome} :
    /\ op' = name
    /\ args' = a
    /\ raised' = r.raised
    /\ ret' = r.ret
    /\ trace' = r.trace
    /\ out' = r.out
    /\ message' = r.message

\* TrinityEmailSender(): __init__ calls load_config
TrinityEmailSender ==
    \E lc \in {load_config} :
    /\ sender' = [config |-> lc.config, alive |-> TRUE]
    /\ file' = lc.file
    /\ mode' = lc.mode
    /\ Record("__init__", NoArgs,
              [raised |-> "", ret |-> RetNone,
               out |-> IF lc.created THEN << [k |-> "created", text |-> <<>>] >> ELSE <<>>,
               trace |-> IF lc.created THEN <<"write">> ELSE <<"read">>,
               message |-> NoMessage])
    /\ UNCHANGED umask

SendEmailCall(to_email, subject, body, attachment, html_body, net) ==
    /\ sender.alive
    /\ Record("send_email",
              [net |-> net, to_email |-> to_email, attachment |-> attachment,
               body |-> body, html_body |-> html_body, subject |-> subject],
              send_email(sender.config, to_email, subject, body, attachment, html_body, Env(net)))
    /\ UNCHANGED <<file, mode, umask, sender>>

SendNotificationCall(text, priority, net) ==
    /\ sender.alive
    /\ Record("send_notification",
              [text |-> text, net |-> net, priority |-> priority],
              send_notification(sender.config, text, priority, Env(net)))
    /\ UNCHANGED <<file, mode, umask, sender>>

SendReportCall(report_data, report_type, net) ==
    /\ sender.alive
    /\ Record("send_report",
              [net |-> net, report_data |-> report_data, report_type |-> report_type],
              send_report(sender.config, report_data, report_type, Env(net)))
    /\ UNCHANGED <<file, mode, umask, sender>>

\* --notification: [given, text]; if args.notification
Truthy(opt) == opt.given /\ opt.text # ""

\* main(): the branch taken, as the send it makes
MainSend(config, cli, env) ==
    IF cli.test
    THEN send_email(config, NoneV, "Trinity Email Test",
                    <<TextLine("This is a test email from Trinity.")>>, NoAttachment, <<>>, env)
    ELSE IF Truthy(cli.notification)
    THEN send_notification(config, cli.notification.text, cli.priority, env)
    ELSE send_email(config, cli.to, cli.subject, <<TextLine(cli.body)>>, cli.attachment, <<>>, env)

main(cli, net) ==
    \E lc \in {load_config} : \E r \in {MainSend(lc.config, cli, Env(net))} :
    /\ file' = lc.file
    /\ mode' = lc.mode
    /\ Record("main", [net |-> net, cli |-> cli],
              [raised |-> r.raised,
               ret |-> RetNone,
               out |-> (IF lc.created THEN << [k |-> "created", text |-> <<>>] >> ELSE <<>>)
                       \o r.out
                       \o (IF cli.test /\ r.raised = "" /\ r.ret.b
                           THEN << [k |-> "test sent", text |-> <<>>] >> ELSE <<>>),
               trace |-> (IF lc.created THEN <<"write">> ELSE <<"read">>) \o <<"send_email">> \o r.trace,
               message |-> r.message])
    /\ UNCHANGED <<umask, sender>>

(***************************************************************************)
(* setup_email.py                                                          *)
(***************************************************************************)
\* variant: a port that falls back to 587 when it is not a number
CustomPort_Lenient(port_in) ==
    LET typed == Strip(port_in) IN
    [valid |-> TRUE, value |-> IF IntValid(typed) THEN IntValue(typed) ELSE 587]

\* int(input("SMTP Port (usually 587): ").strip() or "587")
CustomPort(port_in) ==
    LET typed == Strip(port_in)
        text == IF typed = <<>> THEN <<"5", "8", "7">> ELSE typed
    IN [valid |-> IntValid(text), value |-> IF IntValid(text) THEN IntValue(text) ELSE 0]

\* the provider branch: the host and port it stores, or the int() failure
Provider(choice_in, server_in, port_in) ==
    LET choice == Strip(choice_in) IN
    IF choice = <<"1">>
    THEN [server |-> <<"s","m","t","p",".","g","m","a","i","l",".","c","o","m">>, port |-> 587,
          valid |-> TRUE]
    ELSE IF choice = <<"2">>
    THEN [server |-> <<"s","m","t","p","-","m","a","i","l",".","o","u","t","l","o","o","k",".","c","o","m">>,
          port |-> 587,
          valid |-> TRUE]
    ELSE IF choice = <<"3">>
    THEN [server |-> <<"s","m","t","p",".","m","a","i","l",".","y","a","h","o","o",".","c","o","m">>,
          port |-> 587,
          valid |-> TRUE]
    ELSE [server |-> Strip(server_in), port |-> CustomPort(port_in).value,
          valid |-> CustomPort(port_in).valid]

\* variant: the recipient as typed, blank or not
Recipient_AsTyped(recipient_in, email) == Strip(recipient_in)

\* default_recipient or config["sender_email"]
Recipient(recipient_in, email) ==
    IF Strip(recipient_in) = <<>> THEN email ELSE Strip(recipient_in)

\* the configuration collected from the prompts
Collected(pr, email_in, password_in, recipient_in) ==
    MkConfig(StrV(pr.server), IntV(pr.port), StrV(Strip(email_in)), StrV(password_in),
             StrV(Recipient(recipient_in, Strip(email_in))))

\* the optional test send: a TrinityEmailSender on the file just written
TestSend(config, env) ==
    send_email(json_load(json_dump(config)), NoneV, "[party] Trinity Email Test",
               <<TextLine("Congratulations! Your Trinity email configuration is working perfectly.")>>,
               NoAttachment, <<>>, env)

setup_email_config(choice_in, server_in, port_in, email_in, password_in, recipient_in, test_in, net) ==
    \E pr \in {Provider(choice_in, server_in, port_in)} :
    \E config \in {Collected(pr, email_in, password_in, recipient_in)} :
    \E r \in {TestSend(config, Env(net))} :
    LET test == Lower(Strip(test_in)) = <<"y">>
        a == [server |-> server_in, port |-> port_in, email |-> email_in, password |-> password_in,
              recipient |-> recipient_in, net |-> net, test |-> test_in, choice |-> choice_in]
    IN
    /\ IF ~pr.valid
       THEN /\ Record("setup_email_config", a, Raise("ValueError"))
            /\ UNCHANGED <<file, mode>>
       ELSE /\ file' = TheFile(json_dump(config))
            /\ mode' = Mode600
            /\ Record("setup_email_config", a,
                      [raised |-> IF test THEN r.raised ELSE "",
                       ret |-> RetNone,
                       out |-> IF test /\ r.raised = ""
                               THEN r.out \o << [k |-> IF r.ret.b THEN "test sent" ELSE "test failed",
                                                text |-> <<>>] >>
                               ELSE <<>>,
                       trace |-> <<"write", "chmod">>
                                 \o (IF test THEN <<"read", "send_email">> \o r.trace ELSE <<>>),
                       message |-> IF test THEN r.message ELSE NoMessage])
    /\ UNCHANGED <<umask, sender>>

(***************************************************************************)
(* Inputs                                                                  *)
(***************************************************************************)
ChoiceInputs == { <<"1">>, <<"2">>, <<"3">>, <<"4">>, <<"x">> }
ServerInputs == { <<" ", "h">> }
PortInputs == SeqsUpTo({"5", "-", " ", "x"}, MaxPortLen)
EmailInputs == { <<"a", " ">> }
PasswordInputs == { <<" ", "p">> }
RecipientInputs == { <<>>, <<"c", " ">> }
TestInputs == { <<"n">>, <<" ", "Y">> }

\* a prompt that is not shown gets no input, a send that is not made no outcome
HostPrompt(choice_in, inputs) ==
    IF Strip(choice_in) \in {<<"1">>, <<"2">>, <<"3">>} THEN {<<>>} ELSE inputs

LaterPrompt(choice_in, server_in, port_in, inputs) ==
    IF Provider(choice_in, server_in, port_in).valid THEN inputs ELSE {<<>>}

TestNet(test_in, outcomes) ==
    IF Lower(Strip(test_in)) = <<"y">> THEN outcomes ELSE {"ok"}

Attachments == {NoAttachment, MissingAttachment, ReadableAttachment, UnreadableAttachment}

NoOption == [text |-> "", given |-> FALSE]
Option(text) == [text |-> text, given |-> TRUE]

\* python3 send_email.py --test
TestCli ==
    [attachment |-> NoAttachment, body |-> "Hello from Trinity!",
     subject |-> "Trinity Notification", to |-> NoneV,
     priority |-> "normal", test |-> TRUE, notification |-> NoOption]

CliInputs ==
    [attachment : {NoAttachment, MissingAttachment, ReadableAttachment},
     body : {"Hello from Trinity!"},
     subject : {"Hi"},
     to : {NoneV, StrV(<<"t">>)},
     priority : {"low", "normal", "high"},
     test : BOOLEAN,
     notification : {NoOption, Option(""), Option("Disk full")}]

DropKey(config, key) == SelectSeq(config, LAMBDA e : e.k # key)

RealConfig == MkConfig(StrV(<<"h">>), IntV(25), StrV(<<"a">>), StrV(<<"p">>), StrV(<<"c">>))

\* what an operator may leave in the file: a complete configuration, or one
\* that lost a key
ApiDocs ==
    { json_dump(RealConfig),
      json_dump(DropKey(RealConfig, "sender_email")),
      json_dump(DropKey(RealConfig, "default_recipient")) }

ReportInputs ==
    { [text |-> "", dict |-> TRUE, items |-> << [k |-> "cpu", v |-> "80%"], [k |-> "mem", v |-> "40%"] >>],
      [text |-> "all good", dict |-> FALSE, items |-> <<>>] }

(***************************************************************************)
(* Specifications                                                          *)
(***************************************************************************)
Init ==
    /\ file = NoFile
    /\ mode = {}
    /\ umask \in Umasks
    /\ sender = NoSender
    /\ op = "init"
    /\ args = NoArgs
    /\ raised = ""
    /\ ret = RetNone
    /\ out = <<>>
    /\ trace = <<>>
    /\ message = NoMessage

\* the quick bootstrapper next to the other writers of the file: a sender that
\* creates its default, an operator who edits and deletes
NextQuick ==
    \/ create_email_config
    \/ TrinityEmailSender
    \/ \E doc \in SecretDocs : EditFile(doc)
    \/ DeleteFile

SpecQuick == Init /\ [][NextQuick]_vars

\* the three entry points, each run to completion
Next ==
    \/ create_email_config
    \/ \E choice_in \in ChoiceInputs :
          \E server_in \in HostPrompt(choice_in, ServerInputs),
             port_in \in HostPrompt(choice_in, PortInputs) :
          \E email_in \in LaterPrompt(choice_in, server_in, port_in, EmailInputs),
             password_in \in LaterPrompt(choice_in, server_in, port_in, PasswordInputs),
             recipient_in \in LaterPrompt(choice_in, server_in, port_in, RecipientInputs),
             test_in \in LaterPrompt(choice_in, server_in, port_in, TestInputs) :
          \E net \in TestNet(test_in, {"ok", "connect"}) :
              setup_email_config(choice_in, server_in, port_in, email_in, password_in,
                                 recipient_in, test_in, net)
    \/ \E net \in {"ok", "connect"} : main(TestCli, net)

Spec == Init /\ [][Next]_vars

\* the command line of the sender
NextCli ==
    \/ create_email_config
    \/ \E cli \in CliInputs, net \in {"ok", "login"} : main(cli, net)
    \/ DeleteFile

SpecCli == Init /\ [][NextCli]_vars

\* a sender object in a program, next to an operator who edits the file
NextApi ==
    \/ TrinityEmailSender
    \/ \E to_email \in {NoneV, StrV(<<"t">>)}, attachment \in Attachments,
          html_body \in {<<>>, <<TextLine("<p>Hi</p>")>>}, net \in NetOutcomes :
          SendEmailCall(to_email, "Hi", <<TextLine("Hello")>>, attachment, html_body, net)
    \/ \E priority \in {"low", "normal", "high", "urgent"}, net \in {"ok", "login"} :
          SendNotificationCall("Disk full", priority, net)
    \/ \E report_data \in ReportInputs, net \in {"ok", "connect"} :
          SendReportCall(report_data, "System Report", net)
    \/ \E doc \in ApiDocs : EditFile(doc)
    \/ DeleteFile

SpecApi == Init /\ [][NextApi]_vars

(***************************************************************************)
(* Properties of the quick bootstrapper                                    *)
(***************************************************************************)
PasswordKeyNames == {"sender_password", "API_PASSWORD"}

PlaceholderPassword ==
    <<"y","o","u","r","_","a","p","p","_","p","a","s","s","w","o","r","d","_","h","e","r","e">>

\* C5: a run of the non-interactive bootstrapper on an existing file leaves
\* the file's content and mode as they were and returns the configuration
\* whose JSON text is that content; on an absent file it writes and returns
\* the placeholder configuration; a run that directly follows another run
\* leaves the file as it was and returns the same configuration.
C5_QuickStep ==
    op' = "create_email_config" =>
        /\ IF file.exists
           THEN /\ file' = file
                /\ mode' = mode
                /\ ret'.kind = "config"
                /\ json_dump(ret'.config) = file.doc
           ELSE /\ file' = TheFile(json_dump(quick_config))
                /\ ret' = RetConfig(quick_config)
        /\ op = "create_email_config" => (file' = file /\ ret' = ret)

C6_SecretNeverShown ==
    op = "create_email_config" =>
        \A i \in 1..Len(ret.config) :
            ret.config[i].k \in PasswordKeyNames =>
                /\ \E j \in 1..Len(out) :
                      /\ out[j].k = ret.config[i].k
                      /\ out[j].text = LinePrefix(ret.config[i].k)
                                       \o Stars(Len(PyStr(ret.config[i].v)))
                /\ \A j \in 1..Len(out) : ~Contains(out[j].text, PyStr(ret.config[i].v))

\* C6 as amended: on the file-exists path every password key is displayed as
\* exactly L mask characters (L the length of the stored value as text) and
\* every other key with its stored value in clear; on the first-run path the
\* placeholder configuration is displayed with its password in clear.
C6_Masking ==
    op = "create_email_config" =>
        IF trace = <<"read">>
        THEN /\ Len(out) = Len(ret.config)
             /\ \A i \in 1..Len(out) :
                   /\ out[i].k = ret.config[i].k
                   /\ out[i].text =
                         LinePrefix(out[i].k)
                         \o (IF out[i].k \in PasswordKeyNames
                             THEN Stars(Len(PyStr(ret.config[i].v)))
                             ELSE PyStr(ret.config[i].v))
        ELSE \E j \in 1..Len(out) :
                /\ out[j].k = "sender_password"
                /\ Contains(out[j].text, PlaceholderPassword)

\* an upper-case password key holding a two-character secret was displayed
C6_Witness ==
    /\ op = "create_email_config"
    /\ trace = <<"read">>
    /\ \E i \in 1..Len(ret.config) :
          /\ ret.config[i].k = "API_PASSWORD"
          /\ Len(PyStr(ret.config[i].v)) = 2

(***************************************************************************)
(* Properties of the mail sender                                           *)
(***************************************************************************)
SendOps == {"send_email", "send_notification", "send_report"}

SenderOps == SendOps \cup {"__init__"}

FourSteps == <<"connect", "starttls", "login", "sendmail">>

\* the transport steps of the last call, in the order they were attempted
Attempted == SelectSeq(trace, LAMBDA x : x \in {"connect", "starttls", "login", "sendmail"})

HasBinaryPart(m) == \E i \in 1..Len(m.parts) : m.parts[i].type = "attachment"

\* C1 as stated: every send_email call ends by returning true or false.
C1_NeverRaises == op = "send_email" => (raised = "" /\ ret.kind = "bool")

\* C2: in a send call that returns, connect, STARTTLS, login and submit are
\* attempted at most once each and in that order; a step that fails is the
\* last of them to be attempted, an error line is printed and the result is
\* false; the result is true only if all four were attempted and none failed.
C2_TransportOrder ==
    (op \in SendOps /\ raised = "") =>
        /\ ret.kind = "bool"
        /\ \E n \in 0..4 : Attempted = SubSeq(FourSteps, 1, n)
        /\ ret.b => (Attempted = FourSteps /\ args.net \notin {"connect", "starttls", "login", "sendmail"})
        /\ ~ret.b => \E j \in 1..Len(out) : out[j].k = "error"
        /\ \A i \in 1..Len(Attempted) :
              Attempted[i] = args.net => (i = Len(Attempted) /\ ~ret.b)

\* the server rejected the login of a send_email call
C2_Witness ==
    /\ op = "send_email"
    /\ raised = ""
    /\ args.net = "login"
    /\ Attempted = <<"connect", "starttls", "login">>
    /\ ~ret.b

\* C4 as stated: no step of the sender (construction, send_email,
\* send_notification, send_report) changes the file's existence, content or
\* permissions.
C4_ReadOnlyStep == op' \in SenderOps => (file' = file /\ mode' = mode)

C4_FrameStep ==
    op' \in SenderOps =>
        IF op' = "__init__" /\ ~file.exists
        THEN file' = TheFile(json_dump(default_config)) /\ mode' = CreateMode(umask)
        ELSE file' = file /\ mode' = mode

C8_AttachmentSkip ==
    op = "send_email" =>
        /\ message.built =>
              (HasBinaryPart(message) <=> (args.attachment.given /\ args.attachment.exists))
        /\ (args.attachment.given /\ ~args.attachment.exists) =>
              LET same == send_email(sender.config, args.to_email, args.subject, args.body,
                                     NoAttachment, args.html_body, Env(args.net))
              IN /\ raised = same.raised
                 /\ ret = same.ret
                 /\ trace = same.trace
                 /\ message.built => ~HasBinaryPart(message)

\* a send with a missing path went through the whole session
C8_Witness ==
    /\ op = "send_email"
    /\ args.attachment = MissingAttachment
    /\ message.built
    /\ Attempted = FourSteps
    /\ ret = RetBool(TRUE)

(***************************************************************************)
(* Properties of the command line                                          *)
(***************************************************************************)
PrioritySubject(priority) ==
    CASE priority = "low" -> "[bell] Trinity Notification"
      [] priority = "normal" -> "[mail] Trinity Alert"
      [] priority = "high" -> "[siren] Trinity Important Alert"

DefaultRecipient == Get(json_load(file.doc), "default_recipient")

\* C7 as stated: one send_email per invocation; with --test the test message
\* to the default recipient; else with --notification supplied, whatever its
\* value, the notification with the --priority subject; else the regular send
\* of --to, --subject, --body, --attachment.
C7_Precedence ==
    (op = "main" /\ message.built) =>
        /\ Cardinality({i \in 1..Len(trace) : trace[i] = "send_email"}) = 1
        /\ IF args.cli.test
           THEN /\ message.Subject = "Trinity Email Test"
                /\ message.To = DefaultRecipient
                /\ ~HasBinaryPart(message)
           ELSE IF args.cli.notification.given
           THEN /\ message.Subject = PrioritySubject(args.cli.priority)
                /\ message.To = DefaultRecipient
                /\ message.parts[1].payload[1] = TextLine(args.cli.notification.text)
                /\ ~HasBinaryPart(message)
           ELSE /\ message.Subject = args.cli.subject
                /\ message.To = (IF args.cli.to.t = "none" THEN DefaultRecipient ELSE args.cli.to)
                /\ message.parts[1].payload[1] = TextLine(args.cli.body)
                /\ HasBinaryPart(message) <=> args.cli.attachment.exists

(***************************************************************************)
(* Properties of the configuration file and the interactive bootstrapper   *)
(***************************************************************************)
\* C3 as stated: whenever the file exists after runs of the three entry
\* points, it holds exactly the five keys and grants nothing beyond the owner.
C3_OwnerOnly ==
    file.exists =>
        /\ Len(file.doc) = 5
        /\ Keys(json_load(file.doc)) = RequiredKeys
        /\ mode \cap OtherBits = {}

\* a decimal numeral, read digit by digit
IsDecimal(s) == s # <<>> /\ \A i \in 1..Len(s) : s[i] \in {"0","1","2","3","4","5","6","7","8","9"}

RECURSIVE DecimalValue(_)
DecimalValue(s) ==
    IF s = <<>> THEN 0
    ELSE 10 * DecimalValue(SubSeq(s, 1, Len(s) - 1))
         + (CASE s[Len(s)] = "0" -> 0 [] s[Len(s)] = "1" -> 1 [] s[Len(s)] = "2" -> 2
              [] s[Len(s)] = "3" -> 3 [] s[Len(s)] = "4" -> 4 [] s[Len(s)] = "5" -> 5
              [] s[Len(s)] = "6" -> 6 [] s[Len(s)] = "7" -> 7 [] s[Len(s)] = "8" -> 8
              [] s[Len(s)] = "9" -> 9)

CustomChoice(a) == Strip(a.choice) \notin {<<"1">>, <<"2">>, <<"3">>}

ExpectedServer(a) ==
    CASE Strip(a.choice) = <<"1">> -> <<"s","m","t","p",".","g","m","a","i","l",".","c","o","m">>
      [] Strip(a.choice) = <<"2">> ->
            <<"s","m","t","p","-","m","a","i","l",".","o","u","t","l","o","o","k",".","c","o","m">>
      [] Strip(a.choice) = <<"3">> ->
            <<"s","m","t","p",".","m","a","i","l",".","y","a","h","o","o",".","c","o","m">>
      [] OTHER -> Strip(a.server)

\* an integer as typed: a decimal numeral, or one behind a minus sign
IsInteger(s) == IsDecimal(s) \/ (s # <<>> /\ Head(s) = "-" /\ IsDecimal(Tail(s)))

IntegerValue(s) == IF Head(s) = "-" THEN 0 - DecimalValue(Tail(s)) ELSE DecimalValue(s)

ExpectedPort(a) ==
    IF CustomChoice(a) /\ Strip(a.port) # <<>> THEN IntegerValue(Strip(a.port)) ELSE 587

\* C9: after a run of the interactive bootstrapper whose prompts were all
\* answered validly, the file holds exactly the five collected values, the
\* recipient being the sender address when that prompt was left blank, its
\* mode is owner read/write, and the test send happened at most once and
\* only after the write and the chmod.
C9_Overwrite ==
    (op = "setup_email_config" /\ raised = "") =>
        /\ file.exists
        /\ Len(file.doc) = 5
        /\ json_load(file.doc) =
              MkConfig(StrV(ExpectedServer(args)), IntV(ExpectedPort(args)),
                       StrV(Strip(args.email)), StrV(args.password),
                       StrV(IF Strip(args.recipient) = <<>> THEN Strip(args.email)
                            ELSE Strip(args.recipient)))
        /\ mode = Mode600
        /\ Cardinality({i \in 1..Len(trace) : trace[i] = "send_email"}) <= 1
        /\ \A i \in 1..Len(trace) :
              trace[i] = "send_email" =>
                  \E w \in 1..i, c \in 1..i : w < c /\ c < i /\ trace[w] = "write" /\ trace[c] = "chmod"

\* a run with a blank recipient and a test send has completed
C9_Witness ==
    /\ op = "setup_email_config"
    /\ raised = ""
    /\ Strip(args.recipient) = <<>>
    /\ \E i \in 1..Len(trace) : trace[i] = "send_email"
    /\ CustomChoice(args)

\* C10: choices 1, 2, 3 store the three fixed hosts with port 587; any other
\* choice stores the typed host and the typed port, 587 for a blank port; the
\* run fails with the parse error exactly if the port was asked, is not blank
\* and is not an integer, and then nothing was written or sent: the file
\* keeps its content and permissions.
C10_State ==
    op = "setup_email_config" =>
        /\ (raised = "ValueError") <=>
              (CustomChoice(args) /\ Strip(args.port) # <<>> /\ ~IsInteger(Strip(args.port)))
        /\ raised = "" =>
              /\ file.exists
              /\ Get(json_load(file.doc), "smtp_server") = StrV(ExpectedServer(args))
              /\ Get(json_load(file.doc), "smtp_port") = IntV(ExpectedPort(args))
        /\ raised = "ValueError" => trace = <<>>

C10_Step == (op' = "setup_email_config" /\ raised' = "ValueError") => (file' = file /\ mode' = mode)

C10_Provider == []C10_State /\ [][C10_Step]_vars

\* a run failed on its port while a configuration file existed
C10_Witness ==
    /\ op = "setup_email_config"
    /\ raised = "ValueError"
    /\ file.exists

====
